---- MODULE Spec2Model ----
(***************************************************************************)
(* Fixed-point model of the quant-cpp pricing service:                     *)
(*   black_scholes / implied_volatility   (src/black_scholes.cpp)          *)
(*   monte_carlo_price                    (src/monte_carlo.cpp)            *)
(*   QuantGrpcService handlers            (src/grpc_service.cpp)           *)
(*                                                                         *)
(* Doubles are modelled as fixed-point integers.                           *)
(*   spot, strike, rate, dividend_yield, time_to_maturity : 1e-6 units     *)
(*   volatility, bounds, tolerance : 1e-6 / VolPerMicro units              *)
(*   option prices of the solver   : 1e-6 / (VolPerMicro * PricePerVol)    *)
(* Transcendental functions are taken to first order (short-dated          *)
(* options): exp(x) = 1 + x, Phi(d) - Phi(-d) = 2 * phi(0) * d.            *)
(***************************************************************************)
EXTENDS Integers, Naturals, Sequences, FiniteSets, TLC

VARIABLES iv, trace, mc, rng, drawn, rpc

vars == <<iv, trace, mc, rng, drawn, rpc>>

----------------------------------------------------------------------------
(* Resolution of the fixed-point grid and sizes of the input sets.         *)

\* volatility grid points per 1e-6
VolPerMicro == 4
\* price grid points per volatility grid point
PricePerVol == 128
\* largest explicit max_iterations argument tried besides the default
MaxIterArg == 3

\* grid points per unit for quantities kept in 1e-6 units
Micro == 1000 * 1000

Abs(x) == IF x < 0 THEN -x ELSE x
Max(a, b) == IF a < b THEN b ELSE a

RECURSIVE SqrtSearch(_, _, _)
SqrtSearch(n, lo, hi) ==
  IF lo >= hi THEN lo
  ELSE LET m == (lo + hi + 1) \div 2
       IN IF m * m <= n THEN SqrtSearch(n, m, hi) ELSE SqrtSearch(n, lo, m - 1)

\* std::sqrt on the grid: the largest r with r * r <= n
Sqrt(n) == IF n <= 0 THEN 0 ELSE SqrtSearch(n, 0, 46340)

\* a * exp(x) for x in 1e-6 units, exp taken to first order
ScaleByExp(a, x) == a + ((a \div 1000) * x) \div 1000

----------------------------------------------------------------------------
(* black_scholes.cpp                                                       *)

\* const double eps = 1e-9: below the grid resolution, so the floor is 0
eps == 0

\* kInvSqrtTwoPi = 0.39894..., in 1e-5 units
kInvSqrtTwoPi == 39894

\* x * T for x and T in 1e-6 units
TimesT(x, T) == (x * T) \div Micro

black_scholes(option) ==
  LET S == Max(option.spot, eps)
      K == Max(option.strike, eps)
      r == option.rate
      q == option.dividend_yield
      sigma == Max(option.volatility, eps)
      T == Max(option.time_to_maturity, eps)
      sqrtT == Sqrt(T)
      forward == ScaleByExp(S, -TimesT(q, T))
      discounted == ScaleByExp(K, -TimesT(r, T))
      \* S * e^{-qT} * phi(d1) * sqrtT at d1 = 0, in price units per volatility unit
      vega == ((forward \div 1000) * sqrtT * ((kInvSqrtTwoPi * PricePerVol) \div 100000))
                \div Micro
      parity == (forward - discounted) * VolPerMicro * PricePerVol
      call == Max(parity, 0) + vega * sigma
  IN [price |-> IF option.is_call THEN call ELSE call - parity,
      vega |-> vega]

\* faulty variant: the 0.5 factor is missing
MidpointSum(low, high) == low + high

\* mid = 0.5 * (low + high)
Midpoint(low, high) == (low + high) \div 2

\* faulty variant: the guess keeps the caller's volatility
GuessUnchanged(option, mid) == option

\* OptionInput guess = option; guess.volatility = mid
Guess(option, mid) == [option EXCEPT !.volatility = mid]

\* tolerance, given on the volatility grid, on the price grid
PriceTolerance(tolerance) == tolerance * PricePerVol

\* std::abs(diff) < tolerance
PriceStop(diff, tolerance) == Abs(diff) < PriceTolerance(tolerance)

\* faulty variant: the bracket is narrowed on the wrong side
NarrowSwapped(low, high, mid, diff) ==
  IF diff > 0 THEN [low |-> mid, high |-> high] ELSE [low |-> low, high |-> mid]

\* if (diff > 0.0) high = mid; else low = mid;
Narrow(low, high, mid, diff) ==
  IF diff > 0 THEN [low |-> low, high |-> mid] ELSE [low |-> mid, high |-> high]

\* faulty variant: the bracket width is never tested
WidthStopNever(low, high, tolerance) == FALSE

\* std::abs(high - low) < tolerance
WidthStop(low, high, tolerance) == Abs(high - low) < tolerance

\* faulty variant: the midpoint of the final bracket is returned instead of mid
ReturnedMidOfBracket(low, high, mid) == (low + high) \div 2

\* .implied_volatility = mid
ReturnedVolatility(low, high, mid) == mid

\* .iterations = iteration + 1
ReportedIterations(iteration) == iteration + 1

ImpliedVolatilityResult(f) ==
  [implied_volatility |-> ReturnedVolatility(f.low, f.high, f.mid),
   converged |-> f.converged,
   iterations |-> ReportedIterations(f.iteration)]

NoResult == [implied_volatility |-> 0, converged |-> FALSE, iterations |-> 0]

\* the frame of implied_volatility after its locals are initialised
IVFrame(option, target_price, lower_bound, upper_bound, tolerance, max_iterations) ==
  [pc |-> "loop",
   option |-> option,
   target_price |-> target_price,
   lower_bound |-> lower_bound,
   upper_bound |-> upper_bound,
   tolerance |-> tolerance,
   max_iterations |-> max_iterations,
   low |-> lower_bound,
   high |-> upper_bound,
   mid |-> 0,
   converged |-> FALSE,
   iteration |-> 0,
   result |-> NoResult]

IVIdle == [pc |-> "idle"]

\* one pass through the body of the for loop
IVBody(f) ==
  LET mid == Midpoint(f.low, f.high)
      guess == Guess(f.option, mid)
      price == black_scholes(guess).price
      diff == price - f.target_price
      n == Narrow(f.low, f.high, mid, diff)
      g == [f EXCEPT !.mid = mid]
  IN IF PriceStop(diff, f.tolerance)
       THEN [frame |-> [g EXCEPT !.converged = TRUE, !.pc = "return"],
             price |-> price]
     ELSE IF WidthStop(n.low, n.high, f.tolerance)
       THEN [frame |-> [g EXCEPT !.low = n.low, !.high = n.high,
                                 !.converged = TRUE, !.pc = "return"],
             price |-> price]
     ELSE [frame |-> [g EXCEPT !.low = n.low, !.high = n.high,
                               !.iteration = f.iteration + 1],
           price |-> price]

IVReturn(f) == [f EXCEPT !.pc = "done", !.result = ImpliedVolatilityResult(f)]

RECURSIVE IVRun(_)
IVRun(f) ==
  IF f.iteration < f.max_iterations
    THEN LET b == IVBody(f).frame
         IN IF b.pc = "return" THEN IVReturn(b) ELSE IVRun(b)
    ELSE IVReturn(f)

\* a whole call of implied_volatility
implied_volatility(option, target_price, lower_bound, upper_bound, tolerance, max_iterations) ==
  IVRun(IVFrame(option, target_price, lower_bound, upper_bound,
                tolerance, max_iterations)).result

\* loop condition true: one iteration, returning at once after a break
IVIterate ==
  /\ iv.pc = "loop"
  /\ iv.iteration < iv.max_iterations
  /\ LET b == IVBody(iv)
     IN /\ iv' = IF b.frame.pc = "return" THEN IVReturn(b.frame) ELSE b.frame
        /\ trace' = Append(trace, [mid |-> b.frame.mid, price |-> b.price,
                                   low |-> b.frame.low, high |-> b.frame.high])
  /\ UNCHANGED <<mc, rng, drawn, rpc>>

\* loop condition false: max_iterations exhausted
IVExhausted ==
  /\ iv.pc = "loop"
  /\ iv.iteration >= iv.max_iterations
  /\ iv' = IVReturn(iv)
  /\ UNCHANGED <<trace, mc, rng, drawn, rpc>>

----------------------------------------------------------------------------
(* Direct calls of implied_volatility                                      *)

\* default arguments of implied_volatility (black_scholes.hpp)
DefaultLowerBound == VolPerMicro
DefaultUpperBound == 5 * Micro * VolPerMicro
DefaultTolerance == VolPerMicro
DefaultMaxIterations == 100

\* 1e-4, the accuracy asked of the round trip
RoundTripTolerance == 100 * VolPerMicro

Vol(milli) == milli * 1000 * VolPerMicro

\* the volatility field of the caller's option
IVVolatilities == {Vol(200), Vol(500)}

\* short-dated options, at the money (calls) or just out of it (puts)
IVOptions ==
  {[spot |-> s, strike |-> IF c THEN s ELSE s + 1000, rate |-> 0, volatility |-> v,
    time_to_maturity |-> 100, dividend_yield |-> 0, is_call |-> c] :
     s \in {2 * Micro, 6 * Micro, 100 * Micro}, v \in IVVolatilities, c \in BOOLEAN}

KnownVols == {DefaultLowerBound, Vol(200), Vol(1000), Vol(3217), DefaultUpperBound}

Brackets ==
  {<<DefaultLowerBound, DefaultUpperBound>>,
   <<0, Vol(1)>>,
   <<Vol(1000), Vol(1000)>>,
   <<Vol(500), Vol(1500)>>}

Tolerances == {DefaultTolerance, 0, Vol(10)}

MaxIterationArgs == (0..MaxIterArg) \cup {DefaultMaxIterations}

\* target prices: the price at a known volatility, or a price no volatility reaches
Targets(o) ==
  {black_scholes(Guess(o, v)).price : v \in KnownVols}
    \cup {black_scholes(Guess(o, DefaultUpperBound)).price + Micro,
          black_scholes(Guess(o, 0)).price - Micro}

InitIV ==
  /\ \E option \in IVOptions, b \in Brackets, t \in Tolerances, n \in MaxIterationArgs :
       \E target \in Targets(option) :
         iv = IVFrame(option, target, b[1], b[2], t, n)
  /\ trace = <<>>
  /\ mc = <<>>
  /\ rng = <<>>
  /\ drawn = <<>>
  /\ rpc = [pc |-> "idle"]

NextIV == IVIterate \/ IVExhausted

SpecIV == InitIV /\ [][NextIV]_vars

----------------------------------------------------------------------------
(* monte_carlo.cpp                                                         *)

\* a double that is not a number (0.0 / 0.0)
NaN == 0 - 2147483647

\* a / b on doubles, for a >= 0
Divide(a, b) == IF a = NaN \/ b = NaN \/ b = 0 THEN NaN ELSE a \div b

SqrtOf(a) == IF a = NaN THEN NaN ELSE Sqrt(a)

Discounted(a, x) == IF a = NaN THEN NaN ELSE ScaleByExp(a, x)

\* generator states: std::mt19937 reduced to a 16-bit congruential generator
RngModulus == 2^16

\* std::mt19937 rng(seed)
SeedRng(seed) == seed % RngModulus

RngAdvance(g) == (g * 25173 + 13849) % RngModulus

\* standard normal deviates at the centres of the ten deciles, in 1e-3 units
NormalDeciles == <<-1645, -1036, -674, -385, -126, 126, 385, 674, 1036, 1645>>

\* standard_normal(rng): the variate drawn in generator state g
StandardNormal(g) == NormalDeciles[1 + (RngAdvance(g) * 10) \div RngModulus]

Unconstructed == -1

\* faulty variant: every invocation uses one process-wide generator
SharedRng(c) == 1

\* the generator an invocation draws from: the local rng of that invocation
CallRng(c) == c

\* faulty variant: the zero-path guard is missing
NoEarlyReturn(paths) == FALSE

\* if (paths == 0U)
EarlyReturn(paths) == paths = 0

ZeroPathResult == [price |-> 0, standard_error |-> 0]

MCNoResult == [price |-> NaN, standard_error |-> NaN]

\* the frame of monte_carlo_price on entry
MCFrame(option, paths, seed) ==
  [pc |-> "entry", option |-> option, paths |-> paths, seed |-> seed,
   i |-> 0, payoffs |-> <<>>, sum |-> 0, mean_payoff |-> 0, j |-> 0,
   variance_sum |-> 0, result |-> MCNoResult]

MCIdle == [pc |-> "idle"]

\* payoff of one path whose variate is z (1e-3 units)
Payoff(option, z) ==
  LET S == option.spot
      K == option.strike
      r == option.rate
      q == option.dividend_yield
      sigma == option.volatility \div VolPerMicro
      T == option.time_to_maturity
      drift == TimesT(r - q - ((sigma \div 1000) * (sigma \div 1000)) \div 2, T)
      diffusion == (sigma * Sqrt(T)) \div 1000
      terminal == ScaleByExp(S, drift + (diffusion * z) \div 1000)
  IN IF option.is_call THEN Max(terminal - K, 0) ELSE Max(K - terminal, 0)

\* one pass through the simulation loop, drawing from generator state g
MCPathStep(f, g) ==
  LET z == StandardNormal(g)
      payoff == Payoff(f.option, z)
  IN [frame |-> [f EXCEPT !.payoffs = Append(f.payoffs, payoff),
                          !.sum = f.sum + payoff,
                          !.i = f.i + 1],
      rng |-> RngAdvance(g),
      z |-> z]

\* const double mean_payoff = sum / paths, before the variance loop
MCMean(f) == [f EXCEPT !.pc = "variance", !.mean_payoff = Divide(f.sum, f.paths)]

\* one pass through the variance loop
MCVarianceStep(f) ==
  LET diff == f.payoffs[f.j + 1] - f.mean_payoff
  IN [f EXCEPT !.variance_sum = f.variance_sum + diff * diff, !.j = f.j + 1]

\* lines after the variance loop
MCReturn(f) ==
  LET discount == -TimesT(f.option.rate, f.option.time_to_maturity)
      variance == Divide(f.variance_sum, f.paths)
      stddev == SqrtOf(variance)
      standard_error == IF stddev = NaN THEN NaN
                        ELSE Divide(stddev * 100, Sqrt(f.paths * 10000))
  IN [f EXCEPT !.pc = "done",
               !.result = [price |-> Discounted(f.mean_payoff, discount),
                           standard_error |-> Discounted(standard_error, discount)]]

MCEnter(c) ==
  /\ mc[c].pc = "entry"
  /\ IF EarlyReturn(mc[c].paths)
       THEN /\ mc' = [mc EXCEPT ![c].pc = "done", ![c].result = ZeroPathResult]
            /\ UNCHANGED rng
       ELSE /\ mc' = [mc EXCEPT ![c].pc = "loop"]
            /\ rng' = [rng EXCEPT ![CallRng(c)] = SeedRng(mc[c].seed)]
  /\ UNCHANGED <<iv, trace, drawn, rpc>>

MCPath(c) ==
  /\ mc[c].pc = "loop"
  /\ mc[c].i < mc[c].paths
  /\ LET s == MCPathStep(mc[c], rng[CallRng(c)])
     IN /\ mc' = [mc EXCEPT ![c] = s.frame]
        /\ rng' = [rng EXCEPT ![CallRng(c)] = s.rng]
        /\ drawn' = [drawn EXCEPT ![c] = Append(drawn[c], s.z)]
  /\ UNCHANGED <<iv, trace, rpc>>

MCLoopEnd(c) ==
  /\ mc[c].pc = "loop"
  /\ mc[c].i >= mc[c].paths
  /\ mc' = [mc EXCEPT ![c] = MCMean(mc[c])]
  /\ UNCHANGED <<iv, trace, rng, drawn, rpc>>

MCVariance(c) ==
  /\ mc[c].pc = "variance"
  /\ mc[c].j < Len(mc[c].payoffs)
  /\ mc' = [mc EXCEPT ![c] = MCVarianceStep(mc[c])]
  /\ UNCHANGED <<iv, trace, rng, drawn, rpc>>

MCFinish(c) ==
  /\ mc[c].pc = "variance"
  /\ mc[c].j >= Len(mc[c].payoffs)
  /\ mc' = [mc EXCEPT ![c] = MCReturn(mc[c])]
  /\ UNCHANGED <<iv, trace, rng, drawn, rpc>>

----------------------------------------------------------------------------
(* Concurrent direct calls of monte_carlo_price                            *)

\* largest path count of a direct call
MaxPaths == 3

Calls == {1, 2}

MCOptions ==
  {[spot |-> 2 * Micro, strike |-> 2 * Micro - 50 * k, rate |-> 10000,
    volatility |-> Vol(10), time_to_maturity |-> 100, dividend_yield |-> 0,
    is_call |-> k = 1] : k \in {0, 1}}

Seeds == {42, 7}

InitMC ==
  /\ mc \in [Calls -> {MCFrame(o, n, sd) : o \in MCOptions, n \in 0..MaxPaths, sd \in Seeds}]
  /\ rng = [c \in Calls |-> Unconstructed]
  /\ drawn = [c \in Calls |-> <<>>]
  /\ iv = IVIdle
  /\ trace = <<>>
  /\ rpc = [pc |-> "idle"]

NextMC ==
  \E c \in Calls :
    MCEnter(c) \/ MCPath(c) \/ MCLoopEnd(c) \/ MCVariance(c) \/ MCFinish(c)

SpecMC == InitMC /\ [][NextMC]_vars

\* a call of monte_carlo_price running alone
RECURSIVE MCRun(_, _)
MCRun(f, g) ==
  IF f.pc = "loop"
    THEN IF f.i < f.paths
           THEN LET s == MCPathStep(f, g) IN MCRun(s.frame, s.rng)
           ELSE MCRun(MCMean(f), g)
    ELSE IF f.j < Len(f.payoffs) THEN MCRun(MCVarianceStep(f), g) ELSE MCReturn(f)

monte_carlo_price(option, paths, seed) ==
  IF EarlyReturn(paths) THEN ZeroPathResult
  ELSE MCRun([MCFrame(option, paths, seed) EXCEPT !.pc = "loop"], SeedRng(seed)).result

RECURSIVE DrawSequence(_, _)
\* the first n variates of a generator in state g that nothing else draws from
DrawSequence(g, n) ==
  IF n = 0 THEN <<>> ELSE <<StandardNormal(g)>> \o DrawSequence(RngAdvance(g), n - 1)

\* C7: with paths = 0, monte_carlo_price returns price = 0 and
\* standard_error = 0 exactly, for every option and seed, and draws nothing.
C7_ZeroPathsZeroResult ==
  \A c \in Calls :
    (mc[c].pc = "done" /\ mc[c].paths = 0) =>
      /\ mc[c].result.price = 0
      /\ mc[c].result.standard_error = 0
      /\ drawn[c] = <<>>

C7_Witness ==
  /\ mc[1].pc = "done"
  /\ mc[1].paths = 0
  /\ mc[2].pc = "done"
  /\ mc[2].paths = MaxPaths
  /\ mc[2].result.standard_error > 0

\* C8: under every interleaving each call draws the variates its own seed
\* gives and returns what it returns alone; calls with the same option, path
\* count and seed return the same price and standard error.
C8_CallsAreIndependent ==
  /\ \A c \in Calls :
       /\ mc[c].pc # "entry" =>
            drawn[c] = DrawSequence(SeedRng(mc[c].seed), Len(drawn[c]))
       /\ mc[c].pc = "done" =>
            mc[c].result = monte_carlo_price(mc[c].option, mc[c].paths, mc[c].seed)
  /\ \A c, d \in Calls :
       (/\ mc[c].pc = "done" /\ mc[d].pc = "done"
        /\ mc[c].option = mc[d].option
        /\ mc[c].paths = mc[d].paths
        /\ mc[c].seed = mc[d].seed) => mc[c].result = mc[d].result

C8_Witness ==
  /\ mc[1].pc = "done"
  /\ mc[2].pc = "loop"
  /\ mc[2].i = 1
  /\ mc[1].paths = MaxPaths
  /\ mc[2].paths = MaxPaths
  /\ mc[1].seed = mc[2].seed
  /\ mc[1].result.standard_error > 0

----------------------------------------------------------------------------
(* grpc_service.cpp                                                        *)

\* the literal 1e-6 of sanitize_option, for fields kept in 1e-6 units
OptionFloor == 1

\* the literal 1e-6 of sanitize_option on the volatility grid
VolatilityFloor == OptionFloor * VolPerMicro

\* the path count used when the request gives 0
DefaultPaths == 10000

\* faulty variant: the spot is passed through unclamped
SanitizeAllButSpot(option) ==
  [option EXCEPT !.volatility = Max(option.volatility, VolatilityFloor),
                 !.time_to_maturity = Max(option.time_to_maturity, OptionFloor),
                 !.strike = Max(option.strike, OptionFloor)]

sanitize_option(option) ==
  [option EXCEPT !.volatility = Max(option.volatility, VolatilityFloor),
                 !.time_to_maturity = Max(option.time_to_maturity, OptionFloor),
                 !.strike = Max(option.strike, OptionFloor),
                 !.spot = Max(option.spot, OptionFloor)]

option_from_proto(proto) ==
  [spot |-> proto.spot,
   strike |-> proto.strike,
   rate |-> proto.rate,
   volatility |-> proto.volatility,
   time_to_maturity |-> proto.time_to_maturity,
   dividend_yield |-> proto.dividend,
   is_call |-> proto.is_call]

\* faulty variant: the requested path count is used as it is
PathsAsRequested(paths) == paths

\* request->paths() == 0U ? 10'000U : request->paths()
PathsOrDefault(paths) == IF paths = 0 THEN DefaultPaths ELSE paths

Null == [null |-> TRUE]

NoCall == [op |-> "none"]

InvalidArgument == [code |-> "INVALID_ARGUMENT"]

Ok(body) == [code |-> "OK", body |-> body]

\* the handler's record: the request served, the core call made, the reply
Served(method, request, call, status) ==
  [pc |-> "done", method |-> method, request |-> request, call |-> call, status |-> status]

Price(request) ==
  /\ rpc.pc = "idle"
  /\ IF request = Null
       THEN rpc' = Served("Price", request, NoCall, InvalidArgument)
       ELSE LET option == sanitize_option(option_from_proto(request.option))
                greeks == black_scholes(option)
            IN rpc' = Served("Price", request,
                             [op |-> "black_scholes", option |-> option],
                             Ok([price |-> greeks.price]))
  /\ UNCHANGED <<iv, trace, mc, rng, drawn>>

Greeks(request) ==
  /\ rpc.pc = "idle"
  /\ IF request = Null
       THEN rpc' = Served("Greeks", request, NoCall, InvalidArgument)
       ELSE LET option == sanitize_option(option_from_proto(request.option))
                greeks == black_scholes(option)
            IN rpc' = Served("Greeks", request,
                             [op |-> "black_scholes", option |-> option],
                             Ok(greeks))
  /\ UNCHANGED <<iv, trace, mc, rng, drawn>>

ImpliedVol(request) ==
  /\ rpc.pc = "idle"
  /\ IF request = Null
       THEN rpc' = Served("ImpliedVol", request, NoCall, InvalidArgument)
       ELSE LET sanitized == sanitize_option(option_from_proto(request.option))
                option == [sanitized EXCEPT
                             !.volatility = Max(sanitized.volatility, VolatilityFloor)]
                result == implied_volatility(option, request.target_price,
                                             DefaultLowerBound, DefaultUpperBound,
                                             DefaultTolerance, DefaultMaxIterations)
            IN rpc' = Served("ImpliedVol", request,
                             [op |-> "implied_volatility", option |-> option,
                              target_price |-> request.target_price],
                             Ok(result))
  /\ UNCHANGED <<iv, trace, mc, rng, drawn>>

\* MonteCarlo up to its call of monte_carlo_price, which then runs in mc[1]
MonteCarlo(request) ==
  /\ rpc.pc = "idle"
  /\ IF request = Null
       THEN /\ rpc' = Served("MonteCarlo", request, NoCall, InvalidArgument)
            /\ UNCHANGED mc
       ELSE LET option == sanitize_option(option_from_proto(request.option))
                paths == PathsOrDefault(request.paths)
                seed == request.seed
            IN /\ rpc' = [pc |-> "simulating", method |-> "MonteCarlo",
                          request |-> request,
                          call |-> [op |-> "monte_carlo_price", option |-> option,
                                    paths |-> paths, seed |-> seed]]
               /\ mc' = [mc EXCEPT ![1] = MCFrame(option, paths, seed)]
  /\ UNCHANGED <<iv, trace, rng, drawn>>

\* MonteCarlo after monte_carlo_price has returned
MonteCarloReply ==
  /\ rpc.pc = "simulating"
  /\ mc[1].pc = "done"
  /\ rpc' = Served("MonteCarlo", rpc.request, rpc.call, Ok(mc[1].result))
  /\ UNCHANGED <<iv, trace, mc, rng, drawn>>

----------------------------------------------------------------------------
(* Requests reaching the service                                           *)

\* raw options of a request: valid, all zero, negative, below the floors
OptionProtos ==
  {[spot |-> 2 * Micro, strike |-> 2 * Micro, rate |-> 10000, volatility |-> Vol(10),
    time_to_maturity |-> 100, dividend |-> 0, is_call |-> TRUE],
   [spot |-> 0, strike |-> 0, rate |-> 0, volatility |-> 0,
    time_to_maturity |-> 0, dividend |-> 0, is_call |-> FALSE],
   [spot |-> -5, strike |-> -1, rate |-> -10000, volatility |-> -4,
    time_to_maturity |-> -100, dividend |-> 5000, is_call |-> TRUE],
   [spot |-> 2 * Micro, strike |-> 0, rate |-> 0, volatility |-> VolatilityFloor - 1,
    time_to_maturity |-> 100, dividend |-> -5000, is_call |-> FALSE],
   [spot |-> 0, strike |-> 2 * Micro, rate |-> 10000, volatility |-> Vol(10),
    time_to_maturity |-> 0, dividend |-> 0, is_call |-> TRUE]}

\* largest non-zero path count of a request
MaxRequestPaths == 2

PriceRequests == {[option |-> o] : o \in OptionProtos} \cup {Null}

ImpliedVolRequests ==
  {[option |-> o, target_price |-> t] : o \in OptionProtos, t \in {0, 600000}} \cup {Null}

MonteCarloRequests ==
  {[option |-> o, paths |-> n, seed |-> sd] :
     o \in OptionProtos, n \in 0..MaxRequestPaths, sd \in {42}} \cup {Null}

InitSvc ==
  /\ rpc = [pc |-> "idle"]
  /\ mc = [c \in {1} |-> MCIdle]
  /\ rng = [c \in {1} |-> Unconstructed]
  /\ drawn = [c \in {1} |-> <<>>]
  /\ iv = IVIdle
  /\ trace = <<>>

NextSvc ==
  \/ \E request \in PriceRequests : Price(request)
  \/ \E request \in PriceRequests : Greeks(request)
  \/ \E request \in ImpliedVolRequests : ImpliedVol(request)
  \/ \E request \in MonteCarloRequests : MonteCarlo(request)
  \/ MCEnter(1)
  \/ MCPath(1)
  \/ MCLoopEnd(1)
  \/ MCVariance(1)
  \/ MCFinish(1)
  \/ MonteCarloReply

SpecSvc == InitSvc /\ [][NextSvc]_vars

CoreCalled == rpc.pc # "idle" /\ rpc.call # NoCall

\* C5: in every handler the option handed to the core operation has spot,
\* strike, volatility and time_to_maturity equal to max(raw, 1e-6), hence at
\* least 1e-6, and rate, dividend_yield and is_call as in the request.
C5_CoreOptionIsSanitized ==
  CoreCalled =>
    LET raw == rpc.request.option
        o == rpc.call.option
    IN /\ o.spot = (IF raw.spot < 1 THEN 1 ELSE raw.spot)
       /\ o.strike = (IF raw.strike < 1 THEN 1 ELSE raw.strike)
       /\ o.time_to_maturity = (IF raw.time_to_maturity < 1 THEN 1 ELSE raw.time_to_maturity)
       /\ o.volatility = (IF raw.volatility < VolPerMicro THEN VolPerMicro ELSE raw.volatility)
       /\ o.spot >= 1 /\ o.strike >= 1 /\ o.time_to_maturity >= 1
       /\ o.volatility >= VolPerMicro
       /\ o.rate = raw.rate
       /\ o.dividend_yield = raw.dividend
       /\ o.is_call = raw.is_call

C5_Witness ==
  /\ CoreCalled
  /\ rpc.pc = "done"
  /\ rpc.method = "ImpliedVol"
  /\ rpc.request.option.spot < 1
  /\ rpc.request.option.volatility < 0
  /\ rpc.call.option.spot = 1

\* C6: the MonteCarlo handler never calls monte_carlo_price with 0 paths: a
\* request with paths = 0 is simulated with 10,000 paths, any other count and
\* the seed are passed through, and the zero-path return is never taken.
C6_NeverZeroPaths ==
  (CoreCalled /\ rpc.method = "MonteCarlo") =>
    /\ rpc.call.paths # 0
    /\ rpc.request.paths = 0 => rpc.call.paths = 10000
    /\ rpc.request.paths # 0 => rpc.call.paths = rpc.request.paths
    /\ rpc.call.seed = rpc.request.seed
    /\ mc[1].paths = rpc.call.paths /\ mc[1].seed = rpc.call.seed
    /\ mc[1].pc = "done" => Len(drawn[1]) = rpc.call.paths
    /\ rpc.pc = "done" => rpc.status.body = mc[1].result

C6_Witness ==
  /\ rpc.pc = "simulating"
  /\ rpc.request.paths = 0
  /\ rpc.call.paths = 10000
  /\ mc[1].pc = "loop"
  /\ mc[1].paths = 10000
  /\ Len(drawn[1]) = 3

----------------------------------------------------------------------------
(* Properties of implied_volatility, stated over the finished call and the  *)
(* record of the iterations it executed.                                    *)

IVDone == iv.pc = "done"

Executed == Len(trace)

PriceRuleHeld(e) == Abs(e.price - iv.target_price) < iv.tolerance * PricePerVol

WidthRuleHeld(e) == Abs(e.high - e.low) < iv.tolerance

RuleHeld(e) == PriceRuleHeld(e) \/ WidthRuleHeld(e)

PriceAt(v) == black_scholes([iv.option EXCEPT !.volatility = v]).price

VegaAt(v) == black_scholes([iv.option EXCEPT !.volatility = v]).vega

DefaultCall ==
  /\ iv.lower_bound = DefaultLowerBound
  /\ iv.upper_bound = DefaultUpperBound
  /\ iv.tolerance = DefaultTolerance
  /\ iv.max_iterations = DefaultMaxIterations

\* C1: whatever the outcome, the reported iterations field equals the number
\* of loop bodies actually executed.
C1_IterationsAreExecuted == IVDone => iv.result.iterations = Executed

\* C2: converged = false exactly when all max_iterations iterations ran and
\* neither stopping rule held in any of them; the returned volatility is then
\* the mid of the last executed iteration.
C2_NotConvergedIffExhausted ==
  IVDone =>
    /\ (iv.result.converged = FALSE) <=>
         (/\ Executed = iv.max_iterations
          /\ \A i \in 1..Executed : ~RuleHeld(trace[i]))
    /\ (~iv.result.converged /\ Executed >= 1) =>
         iv.result.implied_volatility = trace[Executed].mid

C2_Witness ==
  /\ IVDone
  /\ ~iv.result.converged
  /\ Executed = MaxIterArg
  /\ iv.result.implied_volatility # 0

\* C3 as claimed: with the default bounds, tolerance and max_iterations, a
\* target priced at a known volatility v of the interval is solved with
\* converged = true and a volatility within 1e-4 of v.
C3_RoundTripAnyOption ==
  (IVDone /\ DefaultCall) =>
    \A v \in KnownVols :
      (iv.target_price = PriceAt(v) /\ VegaAt(v) > 0) =>
        /\ iv.result.converged
        /\ Abs(iv.result.implied_volatility - v) <= RoundTripTolerance

\* the price moves by at least the tolerance over 1e-4 of volatility
Sensitive(v) ==
  /\ VegaAt(v) * RoundTripTolerance >= iv.tolerance * PricePerVol
  /\ VegaAt(iv.result.implied_volatility) * RoundTripTolerance
       >= iv.tolerance * PricePerVol

\* C3 amended: the default round trip always converges, and lands within 1e-4
\* of v when vega is at least tolerance / 1e-4 between v and the result.
C3_RoundTripSensitive ==
  (IVDone /\ DefaultCall) =>
    \A v \in KnownVols :
      (iv.target_price = PriceAt(v) /\ VegaAt(v) > 0) =>
        /\ iv.result.converged
        /\ Sensitive(v) =>
             Abs(iv.result.implied_volatility - v) <= RoundTripTolerance

C3_Witness ==
  /\ IVDone
  /\ DefaultCall
  /\ iv.target_price = PriceAt(Vol(3217))
  /\ Sensitive(Vol(3217))
  /\ Executed >= 10
  /\ PriceRuleHeld(trace[Executed])

\* C4: the result does not depend on the volatility field of the option, and
\* every iteration priced the option with volatility = mid.
C4_VolatilityFieldIgnored ==
  /\ IVDone =>
       \A v \in IVVolatilities :
         implied_volatility([iv.option EXCEPT !.volatility = v],
                            iv.target_price, iv.lower_bound, iv.upper_bound,
                            iv.tolerance, iv.max_iterations) = iv.result
  /\ \A i \in 1..Executed : trace[i].price = PriceAt(trace[i].mid)

C4_Witness ==
  /\ IVDone
  /\ Executed >= 2
  /\ \A i \in 1..Executed : trace[i].mid # iv.option.volatility
  /\ \E v \in IVVolatilities : v # iv.option.volatility

TargetTooHigh == PriceAt(iv.upper_bound) + iv.tolerance * PricePerVol <= iv.target_price

TargetTooLow == PriceAt(iv.lower_bound) - iv.tolerance * PricePerVol >= iv.target_price

RECURSIVE Halvings(_, _)
\* iterations after which a bracket of width w, halved on the grid, is below tol
Halvings(w, tol) ==
  IF (w + 1) \div 2 < tol THEN 1 ELSE 1 + Halvings((w + 1) \div 2, tol)

LargeEnough ==
  /\ iv.tolerance >= 2
  /\ iv.max_iterations >= Halvings(iv.upper_bound - iv.lower_bound, iv.tolerance)

\* C9: for a target no volatility of the interval attains, and max_iterations
\* large enough for the bracket to collapse, the call returns converged = true
\* with a volatility within tolerance of the interval end nearest the target.
C9_BracketCollapseConverges ==
  (IVDone /\ LargeEnough /\ (TargetTooHigh \/ TargetTooLow)) =>
    /\ \A i \in 1..Executed : ~PriceRuleHeld(trace[i])
    /\ iv.result.converged
    /\ TargetTooHigh =>
         /\ iv.result.implied_volatility <= iv.upper_bound
         /\ iv.upper_bound - iv.result.implied_volatility < iv.tolerance
    /\ TargetTooLow =>
         /\ iv.result.implied_volatility >= iv.lower_bound
         /\ iv.result.implied_volatility - iv.lower_bound < iv.tolerance

C9_Witness ==
  /\ IVDone
  /\ LargeEnough
  /\ TargetTooHigh
  /\ DefaultCall
  /\ Executed >= 20
  /\ iv.result.converged

\* bracket before iteration i
LowBefore(i) == IF i = 1 THEN iv.lower_bound ELSE trace[i - 1].low

HighBefore(i) == IF i = 1 THEN iv.upper_bound ELSE trace[i - 1].high

\* on the grid, half of w is w \div 2 or (w + 1) \div 2
IsHalf(h, w) == h = w \div 2 \/ h = (w + 1) \div 2

BracketSteps ==
  /\ iv.lower_bound <= iv.low
  /\ iv.low <= iv.high
  /\ iv.high <= iv.upper_bound
  /\ \A i \in 1..Executed :
       LET e == trace[i]
       IN /\ LowBefore(i) <= e.mid
          /\ e.mid <= HighBefore(i)
          /\ ~PriceRuleHeld(e) =>
               /\ \/ (e.low = e.mid /\ e.high = HighBefore(i))
                  \/ (e.high = e.mid /\ e.low = LowBefore(i))
               /\ IsHalf(e.high - e.low, HighBefore(i) - LowBefore(i))

\* C10 as claimed: the bracket stays inside [lower_bound, upper_bound], each
\* iteration not stopped on price replaces one end by mid and halves the
\* width, and for every max_iterations, 0 included, the returned volatility
\* lies in [lower_bound, upper_bound].
C10_ResultInBracketAlways ==
  /\ BracketSteps
  /\ IVDone =>
       /\ iv.lower_bound <= iv.result.implied_volatility
       /\ iv.result.implied_volatility <= iv.upper_bound

\* C10 amended: the same, with the returned volatility inside the bounds once
\* at least one iteration ran; with max_iterations = 0 it is the initial 0.0.
C10_ResultInBracketAfterIteration ==
  /\ BracketSteps
  /\ (IVDone /\ Executed >= 1) =>
       /\ iv.lower_bound <= iv.result.implied_volatility
       /\ iv.result.implied_volatility <= iv.upper_bound
  /\ (IVDone /\ Executed = 0) => iv.result.implied_volatility = 0

C10_Witness ==
  /\ IVDone
  /\ Executed >= 3
  /\ iv.lower_bound < iv.low
  /\ iv.high < iv.upper_bound

====
